---- MODULE Spec2Model ----
(***************************************************************************)
(* Model of src/zettelkasten_app.py: the note store kept in the directory   *)
(* NOTES_DIR, the ID allocator, the link/tag scans and the handlers of      *)
(* ZettelkastenApp that create, open, save, delete and list notes.          *)
(*                                                                          *)
(* A text (file name, file body, title, keyword, tag) is a sequence of      *)
(* one-character strings, so that split, strip, int(), str(), "in",         *)
(* replace and the regular expression #\w+ are computed character by        *)
(* character as Python computes them.                                       *)
(***************************************************************************)
EXTENDS Integers, Sequences, FiniteSets, TLC

(***************************************************************************)
(* Bounds of the model.                                                     *)
(***************************************************************************)
\* largest number of files the directory holds
MaxFiles == 3
\* largest ID new_note may allocate
MaxId == 3
\* largest number of files whose permissions are restricted at one time
MaxBad == 1

(***************************************************************************)
(* Characters.                                                              *)
(***************************************************************************)
Digits == <<"0", "1", "2", "3", "4", "5", "6", "7", "8", "9">>

UpperCase == <<"A", "B", "C", "D", "E", "F", "G", "H", "I", "J", "K", "L", "M",
               "N", "O", "P", "Q", "R", "S", "T", "U", "V", "W", "X", "Y", "Z">>

LowerCase == <<"a", "b", "c", "d", "e", "f", "g", "h", "i", "j", "k", "l", "m",
               "n", "o", "p", "q", "r", "s", "t", "u", "v", "w", "x", "y", "z">>

\* the characters a tag can hold, in code point order
TagChars == <<"#">> \o Digits \o UpperCase \o <<"_">> \o LowerCase

Range(s) == {s[i] : i \in DOMAIN s}

IsSpace(c) == c \in {" ", "\n", "\t"}

DigitSet == Range(Digits)

UpperSet == Range(UpperCase)

\* the characters \w of the re module matches: letters, digits, underscore
WordSet == Range(Digits) \cup Range(UpperCase) \cup Range(LowerCase) \cup {"_"}

IsDigit(c) == c \in DigitSet

DigitVal(c) == (CHOOSE i \in DOMAIN Digits : Digits[i] = c) - 1

IsWord(c) == c \in WordSet

\* a lower() that leaves the character as it is
SameChar(c) == c

\* str.lower() on one character
LowerChar(c) ==
    IF c \in UpperSet
    THEN LowerCase[CHOOSE i \in DOMAIN UpperCase : UpperCase[i] = c]
    ELSE c

\* str.lower()
Lower(s) == [i \in DOMAIN s |-> LowerChar(s[i])]

\* code point order of the characters of a tag
Ord(c) == CHOOSE i \in DOMAIN TagChars : TagChars[i] = c

(***************************************************************************)
(* Python string operations.                                                *)
(***************************************************************************)
\* t occurs in s at position i
MatchAt(s, t, i) ==
    /\ i >= 1
    /\ i + Len(t) - 1 <= Len(s)
    /\ \A j \in DOMAIN t : s[i + j - 1] = t[j]

\* the expression  t in s  (the empty string is in every string)
Contains(s, t) ==
    LET n == Len(s)
        m == Len(t)
    IN  m = 0 \/ \E i \in 1..(n - m + 1) : s[i] = t[1] /\ SubSeq(s, i, i + m - 1) = t

\* s.startswith(t)
StartsWith(s, t) == MatchAt(s, t, 1)

\* s.endswith(t)
EndsWith(s, t) == MatchAt(s, t, Len(s) - Len(t) + 1)

\* s[:n]
Take(s, n) == SubSeq(s, 1, IF Len(s) < n THEN Len(s) ELSE n)

\* s.strip()
Strip(s) ==
    LET keep == {i \in DOMAIN s : ~IsSpace(s[i])}
    IN  IF keep = {} THEN <<>>
        ELSE SubSeq(s, CHOOSE i \in keep : \A j \in keep : i <= j,
                       CHOOSE i \in keep : \A j \in keep : j <= i)

\* s.split(): the maximal runs of non-whitespace characters, left to right
RECURSIVE SplitFrom(_, _, _)
SplitFrom(s, i, word) ==
    IF i > Len(s)
    THEN IF word = <<>> THEN <<>> ELSE <<word>>
    ELSE IF IsSpace(s[i])
         THEN IF word = <<>>
              THEN SplitFrom(s, i + 1, <<>>)
              ELSE <<word>> \o SplitFrom(s, i + 1, <<>>)
         ELSE SplitFrom(s, i + 1, Append(word, s[i]))

Split(s) == SplitFrom(s, 1, <<>>)

\* sep.join(words)
RECURSIVE Join(_, _)
Join(sep, words) ==
    IF words = <<>> THEN <<>>
    ELSE IF Len(words) = 1 THEN words[1]
    ELSE words[1] \o sep \o Join(sep, Tail(words))

\* s.split("_", 1)[0]: the part of s before the first underscore, all of s
\* when it has none
SplitPrefix(s) ==
    LET us == {i \in DOMAIN s : s[i] = "_"}
    IN  IF us = {} THEN s
        ELSE SubSeq(s, 1, (CHOOSE i \in us : \A j \in us : i <= j) - 1)

\* s.replace(old, new, 1): only the first occurrence is replaced
ReplaceFirst(s, old, new) ==
    LET n    == Len(s)
        m    == Len(old)
        hits == {i \in 1..(n - m + 1) : s[i] = old[1] /\ SubSeq(s, i, i + m - 1) = old}
    IN  IF hits = {} THEN s
        ELSE LET first == CHOOSE i \in hits : \A j \in hits : i <= j
             IN  SubSeq(s, 1, first - 1) \o new \o SubSeq(s, first + m, n)

\* s.replace(old, new), for old not empty: the occurrences of old are
\* replaced from the left, the search resumes after each replaced occurrence
RECURSIVE Replace(_, _, _)
Replace(s, old, new) ==
    LET n    == Len(s)
        m    == Len(old)
        hits == {i \in 1..(n - m + 1) : s[i] = old[1] /\ SubSeq(s, i, i + m - 1) = old}
    IN  IF hits = {} THEN s
        ELSE LET first == CHOOSE i \in hits : \A j \in hits : i <= j
             IN  SubSeq(s, 1, first - 1) \o new
                 \o Replace(SubSeq(s, first + m, n), old, new)

\* value of a run of decimal digits
RECURSIVE DigitsVal(_)
DigitsVal(s) ==
    IF s = <<>> THEN 0
    ELSE 10 * DigitsVal(SubSeq(s, 1, Len(s) - 1)) + DigitVal(s[Len(s)])

\* int(s): surrounding whitespace is dropped, one sign is allowed, the rest
\* is a non-empty run of digits; anything else raises ValueError (ok = FALSE)
PyInt(s) ==
    LET t    == Strip(s)
        sign == t /= <<>> /\ t[1] \in {"+", "-"}
        body == IF sign THEN Tail(t) ELSE t
    IN  IF body /= <<>> /\ \A i \in DOMAIN body : IsDigit(body[i])
        THEN [ok |-> TRUE,
              val |-> IF sign /\ t[1] = "-" THEN 0 - DigitsVal(body) ELSE DigitsVal(body)]
        ELSE [ok |-> FALSE, val |-> 0]

\* str(n) of an integer
RECURSIVE NatStr(_)
NatStr(n) ==
    IF n < 10 THEN <<Digits[n + 1]>>
    ELSE Append(NatStr(n \div 10), Digits[(n % 10) + 1])

Str(n) == IF n < 0 THEN <<"-">> \o NatStr(0 - n) ELSE NatStr(n)


(***************************************************************************)
(* Program constants and the texts the handlers write.                      *)
(***************************************************************************)
\* generate_filename keeps the first 30 characters of the slug
SlugLen == 30

\* ".md", the extension of a note file
MdExt == <<".", "m", "d">>

\* "# " and the rest of the first line of a new note
HeadingMark == <<"#", " ">>

IdLine == <<"I", "D", ":", " ">>

CreatedLine == <<"C", "r", "e", "a", "t", "e", "d", ":", " ">>

LinksLine ==
    <<"L", "i", "n", "k", "s", ":", " ", "U", "s", "e", " ", "[", "[", "n", "o", "t",
      "e", "_", "i", "d", "]", "]", " ", "t", "o", " ", "r", "e", "f", "e", "r",
      "e", "n", "c", "e", " ", "a", "n", "o", "t", "h", "e", "r", " ", "n", "o",
      "t", "e", ".", "\n">>

TagsLine == <<"T", "a", "g", "s", ":", " ", "A", "d", "d", " ", "w", "i", "t", "h", " ", "#",
      "e", "x", "a", "m", "p", "l", "e", "\n">>

DeletedOpen == <<"(", "d", "e", "l", "e", "t", "e", "d", " ", "n", "o", "t", "e", " ">>

\* the body new_note writes for title, note_id and the time now
Template(title, note_id, now) ==
    HeadingMark \o title \o <<"\n", "\n">>
    \o IdLine \o note_id \o <<"\n">>
    \o CreatedLine \o now \o <<"\n", "\n">>
    \o LinksLine
    \o TagsLine

\* f"[[{note_id}]]"
Link(note_id) == <<"[", "[">> \o note_id \o <<"]", "]">>

\* f"(deleted note {note_id})"
Placeholder(note_id) == DeletedOpen \o note_id \o <<")">>


(***************************************************************************)
(* The state.                                                               *)
(*                                                                          *)
(* zettel is the directory NOTES_DIR: its entries in the order os.listdir   *)
(* returns them, each with the file's name, its body and its access mode    *)
(* ("rw": readable and writable, "none": every open() of it fails).         *)
(* current_file holds the open note's file name (the code                   *)
(* keeps NOTES_DIR joined to it and takes os.path.basename where it needs   *)
(* the name); <<>> stands for None there and in current_id.  sidebar,       *)
(* backlinks_box and tag_list are the list boxes the handlers fill.         *)
(* messagebox is the dialog the last handler showed, raised the exception   *)
(* that left it uncaught.  ret is the last direct call of get_next_id,      *)
(* find_backlinks or extract_tags: the function, its argument and what it   *)
(* returned, as a list of texts.  issued records every ID new_note has      *)
(* allocated (history, not program state).                                  *)
(***************************************************************************)
VARIABLES zettel, current_file, current_id, sidebar, backlinks_box, tag_list,
          messagebox, raised, ret, issued

vars == <<zettel, current_file, current_id, sidebar, backlinks_box, tag_list,
          messagebox, raised, ret, issued>>

None == <<>>

NoBox == [call |-> "none", title |-> ""]

Box(call, title) == [call |-> call, title |-> title]

(***************************************************************************)
(* Files.                                                                   *)
(***************************************************************************)
\* os.listdir(NOTES_DIR)
ListDir(dir) == [i \in DOMAIN dir |-> dir[i].name]

Exists(dir, fname) == \E i \in DOMAIN dir : dir[i].name = fname

IndexOf(dir, fname) == CHOOSE i \in DOMAIN dir : dir[i].name = fname

\* open(filepath, "r") succeeds
CanRead(dir, fname) ==
    Exists(dir, fname) /\ dir[IndexOf(dir, fname)].mode = "rw"

\* open(filepath, "w") succeeds: on a missing file it creates the file
CanWrite(dir, fname) ==
    Exists(dir, fname) => dir[IndexOf(dir, fname)].mode = "rw"

\* f.read()
ReadFile(dir, fname) == dir[IndexOf(dir, fname)].body

\* open(filepath, "w") followed by f.write(body); a file that did not exist
\* appears after the first at entries of the listing
WriteFile(dir, fname, body, at) ==
    IF Exists(dir, fname)
    THEN [dir EXCEPT ![IndexOf(dir, fname)].body = body]
    ELSE SubSeq(dir, 1, at)
         \o <<[name |-> fname, body |-> body, mode |-> "rw"]>>
         \o SubSeq(dir, at + 1, Len(dir))

\* os.remove(filepath)
RemoveFile(dir, fname) ==
    LET Keep(e) == e.name /= fname
    IN  SelectSeq(dir, Keep)

(***************************************************************************)
(* The note helpers (module-level functions).                               *)
(***************************************************************************)
list_note_files(dir) ==
    LET IsNote(f) == EndsWith(f, MdExt) /\ ~StartsWith(f, <<".">>)
    IN  SelectSeq(ListDir(dir), IsNote)

\* the loop of get_next_id: the IDs of the files whose prefix int() accepts
RECURSIVE CollectIds(_, _)
CollectIds(files, i) ==
    IF i > Len(files) THEN <<>>
    ELSE LET note_id == PyInt(SplitPrefix(files[i]))
         IN  (IF note_id.ok THEN <<note_id.val>> ELSE <<>>)
             \o CollectIds(files, i + 1)

\* max(ids)
Max(ids) == CHOOSE m \in Range(ids) : \A n \in Range(ids) : n <= m

\* an allocator that counts the notes: len(ids) + 1
GetNextIdByCount(dir) ==
    Str(Len(CollectIds(list_note_files(dir), 1)) + 1)

\* an allocator that fills the gaps: the least positive integer no note has
NextIdBackfill(dir) ==
    LET ids == Range(CollectIds(list_note_files(dir), 1))
    IN  Str(CHOOSE n \in 1..(Cardinality(ids) + 1) :
                n \notin ids /\ \A k \in 1..(n - 1) : k \in ids)

get_next_id(dir) ==
    LET ids == CollectIds(list_note_files(dir), 1)
    IN  Str(IF ids /= <<>> THEN Max(ids) + 1 ELSE 1)

\* a file name that always carries the ID 1
GenerateFilenameFirstId(note_id, title) ==
    LET slug == Take(Join(<<"_">>, Split(Strip(title))), SlugLen)
    IN  <<"1", "_">> \o slug \o MdExt

generate_filename(note_id, title) ==
    LET slug == Take(Join(<<"_">>, Split(Strip(title))), SlugLen)
    IN  note_id \o <<"_">> \o slug \o MdExt

extract_id_from_filename(filename) == SplitPrefix(filename)

\* a scan that leaves out the note's own file
FindBacklinksOthers(dir, note_id) ==
    LET Links(fname) ==
            /\ SplitPrefix(fname) /= note_id
            /\ CanRead(dir, fname)
            /\ Contains(ReadFile(dir, fname), Link(note_id))
    IN  SelectSeq(list_note_files(dir), Links)

find_backlinks(dir, note_id) ==
    LET Links(fname) ==
            CanRead(dir, fname) /\ Contains(ReadFile(dir, fname), Link(note_id))
    IN  SelectSeq(list_note_files(dir), Links)

\* matches only where no word character comes before the "#"
FindTagsAtWordStart(content) ==
    LET n       == Len(content)
        starts  == {i \in 1..(n - 1) :
                        /\ content[i] = "#"
                        /\ IsWord(content[i + 1])
                        /\ i = 1 \/ ~IsWord(content[i - 1])}
        Stop(i) == CHOOSE e \in (i + 1)..n :
                       /\ \A k \in (i + 1)..e : IsWord(content[k])
                       /\ e = n \/ ~IsWord(content[e + 1])
    IN  {SubSeq(content, i, Stop(i)) : i \in starts}

\* re.findall(r"#\w+", content): a match starts at every "#" that a word
\* character follows (a match holds no "#" after its first character, so no
\* match hides the start of another) and runs to the end of the word
\* characters
FindTags(content) ==
    LET n       == Len(content)
        starts  == {i \in 1..(n - 1) : content[i] = "#" /\ IsWord(content[i + 1])}
        Stop(i) == CHOOSE e \in (i + 1)..n :
                       /\ \A k \in (i + 1)..e : IsWord(content[k])
                       /\ e = n \/ ~IsWord(content[e + 1])
    IN  {SubSeq(content, i, Stop(i)) : i \in starts}

\* a < b for two strings, as sorted() compares them
RECURSIVE StrLess(_, _)
StrLess(a, b) ==
    IF b = <<>> THEN FALSE
    ELSE IF a = <<>> THEN TRUE
    ELSE IF a[1] = b[1] THEN StrLess(Tail(a), Tail(b))
    ELSE Ord(a[1]) < Ord(b[1])

\* sorted(tags) of a set of strings
RECURSIVE SortedTags(_)
SortedTags(tags) ==
    IF tags = {} THEN <<>>
    ELSE LET least == CHOOSE t \in tags : \A u \in tags \ {t} : StrLess(t, u)
         IN  <<least>> \o SortedTags(tags \ {least})

\* a scan that ends at the first file that cannot be opened
ExtractTagsAborting(dir) ==
    LET files == list_note_files(dir)
        bad   == {j \in DOMAIN files : ~CanRead(dir, files[j])}
        upto  == IF bad = {} THEN Len(files)
                 ELSE (CHOOSE j \in bad : \A k \in bad : j <= k) - 1
    IN  SortedTags(UNION {FindTags(ReadFile(dir, files[i])) : i \in 1..upto})

extract_tags(dir) ==
    LET files == list_note_files(dir)
        found == UNION {FindTags(ReadFile(dir, files[i])) :
                            i \in {j \in DOMAIN files : CanRead(dir, files[j])}}
    IN  SortedTags(found)


(***************************************************************************)
(* ZettelkastenApp: the parts of the handlers shared between them.          *)
(***************************************************************************)
\* the key refresh_list sorts by: int(x.split("_", 1)[0])
SortKey(fname) == PyInt(SplitPrefix(fname))

\* the keys of files, in their order
RECURSIVE Keys(_)
Keys(files) ==
    IF files = <<>> THEN <<>>
    ELSE <<SortKey(Head(files)).val>> \o Keys(Tail(files))

\* files in ascending order of their keys, files of equal key in the order
\* of files
RECURSIVE SortedWith(_, _)
SortedWith(files, keys) ==
    IF files = <<>> THEN <<>>
    ELSE LET first == CHOOSE i \in DOMAIN keys : \A j \in DOMAIN keys :
                          keys[i] < keys[j] \/ (keys[i] = keys[j] /\ i <= j)
         IN  <<files[first]>>
             \o SortedWith(SubSeq(files, 1, first - 1)
                               \o SubSeq(files, first + 1, Len(files)),
                           SubSeq(keys, 1, first - 1)
                               \o SubSeq(keys, first + 1, Len(keys)))

\* sorted(files): ascending by name, as strings
RECURSIVE SortedByName(_)
SortedByName(files) ==
    IF files = <<>> THEN <<>>
    ELSE LET first == CHOOSE i \in DOMAIN files : \A j \in DOMAIN files :
                          i = j \/ StrLess(files[i], files[j])
         IN  <<files[first]>>
             \o SortedByName(SubSeq(files, 1, first - 1)
                             \o SubSeq(files, first + 1, Len(files)))

\* sorted(files, key=...): the key of each file is computed once
SortedByKey(files) == SortedWith(files, Keys(files))

\* filter_func=None: every file passes
NoFilter(dir) == Range(ListDir(dir))

\* refresh_list(filter_func), with passes the files filter_func accepts: the
\* sidebar is emptied, then filled with the sorted files that pass; sorted()
\* raises ValueError (ok = FALSE) when int() rejects the prefix of some file,
\* and the sidebar stays empty
refresh_list(dir, passes) ==
    LET files == list_note_files(dir)
        Passes(fname) == fname \in passes
    IN  IF \E i \in DOMAIN files : ~SortKey(files[i]).ok
        THEN [ok |-> FALSE, sidebar |-> <<>>]
        ELSE [ok |-> TRUE, sidebar |-> SelectSeq(SortedByKey(files), Passes)]

\* update_backlinks: what backlinks_box holds afterwards
update_backlinks(dir, note_id, box) ==
    IF note_id = None THEN box ELSE find_backlinks(dir, note_id)

\* self.text.get("1.0", tk.END): the text typed into the editor, followed by
\* the newline the Tk text widget ends every text with
text_get(typed) == Append(typed, "\n")

\* the loop of delete_note over the listing files, from its entry i on:
\* the directory it leaves, and whether it ran to its end (an open() that
\* fails ends it)
RECURSIVE Cleanup(_, _, _, _, _)
Cleanup(dir, files, i, filename, note_id) ==
    IF i > Len(files) THEN [ok |-> TRUE, dir |-> dir]
    ELSE IF files[i] = filename THEN Cleanup(dir, files, i + 1, filename, note_id)
    ELSE IF ~CanRead(dir, files[i]) THEN [ok |-> FALSE, dir |-> dir]
    ELSE LET content == ReadFile(dir, files[i])
         IN  IF Contains(content, Link(note_id))
             THEN IF ~CanWrite(dir, files[i]) THEN [ok |-> FALSE, dir |-> dir]
                  ELSE Cleanup(WriteFile(dir, files[i],
                                         Replace(content, Link(note_id), Placeholder(note_id)),
                                         0),
                               files, i + 1, filename, note_id)
             ELSE Cleanup(dir, files, i + 1, filename, note_id)

(***************************************************************************)
(* The inputs.                                                              *)
(***************************************************************************)
\* what the user answers to "Enter note title:" (<<>>: nothing, or Cancel)
Titles == {<<>>, <<" ">>, <<"a">>}

\* datetime.datetime.now().isoformat()
Timestamps == {<<"2", "0", "2", "6", "-", "1", "1", "-", "0", "4", "T", "0", "9", ":", "3", "0", ":", "0", "0">>}

\* what the user has typed into the editor when the note is saved
Texts == {<<"[", "[", "1", "]", "]", "[", "[", "1", "2", "]", "]", " ", "[", "[", "1", "]", "]", " ", "#", "T">>}

\* what the user has typed into the search entry
Keywords == {<<>>, <<" ">>, <<" ", "Z", "E", "T">>, <<"B">>}

\* the IDs find_backlinks is called with directly
LinkIds == {<<"1">>, <<"2">>}

\* the access modes of a file
Modes == {"rw", "none"}

\* where os.listdir lists a file created in dir: Spec lists it last, and
\* SpecQuery starts from directories listed in every order
Places(dir) == {Len(dir)}

(***************************************************************************)
(* Init: the state a ZettelkastenApp is constructed in, on an empty         *)
(* directory.                                                               *)
(***************************************************************************)
Init ==
    /\ zettel = <<>>
    /\ current_file = None
    /\ current_id = None
    /\ sidebar = <<>>
    /\ backlinks_box = <<>>
    /\ tag_list = <<>>
    /\ messagebox = NoBox
    /\ raised = ""
    /\ ret = [fn |-> "none", arg |-> <<>>, val |-> <<>>]
    /\ issued = {}

(***************************************************************************)
(* The handlers.                                                            *)
(***************************************************************************)
\* new_note, for the title the dialog returns; at is where os.listdir will
\* list the new file
new_note(title, now, at) ==
    IF title = <<>>
    THEN /\ messagebox' = NoBox
         /\ raised' = ""
         /\ UNCHANGED <<zettel, current_file, current_id, sidebar, backlinks_box,
                        tag_list, ret, issued>>
    ELSE LET note_id  == get_next_id(zettel)
             filename == generate_filename(note_id, title)
             written  == WriteFile(zettel, filename, Template(title, note_id, now), at)
             listing  == refresh_list(written, NoFilter(written))
         IN  /\ Len(zettel) < MaxFiles
             /\ PyInt(note_id).val <= MaxId
             /\ zettel' = written
             /\ sidebar' = listing.sidebar
             /\ IF listing.ok
                THEN /\ tag_list' = extract_tags(written)
                     /\ messagebox' = Box("showinfo", "Note Created")
                     /\ raised' = ""
                ELSE /\ tag_list' = tag_list
                     /\ messagebox' = NoBox
                     /\ raised' = "ValueError"
             /\ issued' = issued \cup {note_id}
             /\ UNCHANGED <<current_file, current_id, backlinks_box, ret>>

\* save_note, with typed in the editor
save_note(typed, at) ==
    IF current_file = None
    THEN /\ messagebox' = Box("showwarning", "No File")
         /\ raised' = ""
         /\ UNCHANGED <<zettel, current_file, current_id, sidebar, backlinks_box,
                        tag_list, ret, issued>>
    ELSE IF ~CanWrite(zettel, current_file)
    THEN /\ messagebox' = NoBox
         /\ raised' = "PermissionError"
         /\ UNCHANGED <<zettel, current_file, current_id, sidebar, backlinks_box,
                        tag_list, ret, issued>>
    ELSE LET written == WriteFile(zettel, current_file, text_get(typed), at)
         IN  /\ Exists(zettel, current_file) \/ Len(zettel) < MaxFiles
             /\ zettel' = written
             /\ messagebox' = Box("showinfo", "Saved")
             /\ raised' = ""
             /\ backlinks_box' = update_backlinks(written, current_id, backlinks_box)
             /\ tag_list' = extract_tags(written)
             /\ UNCHANGED <<current_file, current_id, sidebar, ret, issued>>

\* load_note_by_name(filename), when the file can be read
load_note_by_name(filename) ==
    /\ current_file' = filename
    /\ current_id' = extract_id_from_filename(filename)
    /\ backlinks_box' = update_backlinks(zettel, extract_id_from_filename(filename),
                                         backlinks_box)

\* load_note, on entry i of the sidebar: an open() that fails is caught
load_note(i) ==
    /\ i \in DOMAIN sidebar
    /\ IF CanRead(zettel, sidebar[i])
       THEN /\ load_note_by_name(sidebar[i])
            /\ messagebox' = NoBox
       ELSE /\ messagebox' = Box("showerror", "Error")
            /\ UNCHANGED <<current_file, current_id, backlinks_box>>
    /\ raised' = ""
    /\ UNCHANGED <<zettel, sidebar, tag_list, ret, issued>>

\* open_backlink, on entry i of the backlinks box: nothing is caught
open_backlink(i) ==
    /\ i \in DOMAIN backlinks_box
    /\ IF backlinks_box[i] \notin Range(sidebar)
       THEN /\ raised' = ""
            /\ UNCHANGED <<current_file, current_id, backlinks_box>>
       ELSE IF CanRead(zettel, backlinks_box[i])
       THEN /\ load_note_by_name(backlinks_box[i])
            /\ raised' = ""
       ELSE /\ raised' = "OSError"
            /\ UNCHANGED <<current_file, current_id, backlinks_box>>
    /\ messagebox' = NoBox
    /\ UNCHANGED <<zettel, sidebar, tag_list, ret, issued>>

\* delete_note, with the user's answer to "Are you sure you want to delete"
delete_note(confirm) ==
    IF current_file = None
    THEN /\ messagebox' = Box("showwarning", "No File")
         /\ raised' = ""
         /\ UNCHANGED <<zettel, current_file, current_id, sidebar, backlinks_box,
                        tag_list, ret, issued>>
    ELSE IF ~confirm
    THEN /\ messagebox' = NoBox
         /\ raised' = ""
         /\ UNCHANGED <<zettel, current_file, current_id, sidebar, backlinks_box,
                        tag_list, ret, issued>>
    ELSE IF ~Exists(zettel, current_file)
    THEN /\ messagebox' = Box("showerror", "Error")
         /\ raised' = ""
         /\ UNCHANGED <<zettel, current_file, current_id, sidebar, backlinks_box,
                        tag_list, ret, issued>>
    ELSE LET removed == RemoveFile(zettel, current_file)
             cleaned == Cleanup(removed, list_note_files(removed), 1,
                                current_file, current_id)
             listing == refresh_list(cleaned.dir, NoFilter(cleaned.dir))
         IN  /\ zettel' = cleaned.dir
             /\ raised' = ""
             /\ IF ~cleaned.ok
                THEN /\ messagebox' = Box("showerror", "Error")
                     /\ UNCHANGED <<current_file, current_id, sidebar, backlinks_box,
                                    tag_list>>
                ELSE /\ current_file' = None
                     /\ current_id' = None
                     /\ backlinks_box' = <<>>
                     /\ sidebar' = listing.sidebar
                     /\ IF listing.ok
                        THEN /\ tag_list' = extract_tags(cleaned.dir)
                             /\ messagebox' = Box("showinfo", "Deleted")
                        ELSE /\ tag_list' = tag_list
                             /\ messagebox' = Box("showerror", "Error")
             /\ UNCHANGED <<ret, issued>>

\* refresh_list() as the command of the Refresh and Clear buttons
refresh_list_command ==
    LET listing == refresh_list(zettel, NoFilter(zettel))
    IN  /\ sidebar' = listing.sidebar
        /\ raised' = IF listing.ok THEN "" ELSE "ValueError"
        /\ messagebox' = NoBox
        /\ UNCHANGED <<zettel, current_file, current_id, backlinks_box, tag_list,
                       ret, issued>>

\* a search whose filter opens each file with "w", which empties it
search_notes_truncating(entry) ==
    LET keyword == Lower(Strip(entry))
        listing == refresh_list(zettel, NoFilter(zettel))
    IN  /\ zettel' = [i \in DOMAIN zettel |->
                         IF /\ keyword /= <<>>
                            /\ listing.ok
                            /\ zettel[i].name \in Range(listing.sidebar)
                            /\ zettel[i].mode = "rw"
                         THEN [zettel[i] EXCEPT !.body = <<>>]
                         ELSE zettel[i]]
        /\ sidebar' = IF keyword = <<>> THEN listing.sidebar ELSE <<>>
        /\ raised' = IF listing.ok THEN "" ELSE "ValueError"
        /\ messagebox' = NoBox
        /\ UNCHANGED <<current_file, current_id, backlinks_box, tag_list, ret, issued>>

\* search_notes, with entry typed into the search entry
search_notes(entry) ==
    LET keyword == Lower(Strip(entry))
        filter_func ==
            {fname \in Range(ListDir(zettel)) :
                 /\ CanRead(zettel, fname)
                 /\ \/ Contains(Lower(fname), keyword)
                    \/ Contains(Lower(ReadFile(zettel, fname)), keyword)}
        listing == IF keyword = <<>>
                   THEN refresh_list(zettel, NoFilter(zettel))
                   ELSE refresh_list(zettel, filter_func)
    IN  /\ sidebar' = listing.sidebar
        /\ raised' = IF listing.ok THEN "" ELSE "ValueError"
        /\ messagebox' = NoBox
        /\ UNCHANGED <<zettel, current_file, current_id, backlinks_box, tag_list,
                       ret, issued>>

\* refresh_tags() as the command of the Refresh Tags button
refresh_tags ==
    /\ tag_list' = extract_tags(zettel)
    /\ raised' = ""
    /\ messagebox' = NoBox
    /\ UNCHANGED <<zettel, current_file, current_id, sidebar, backlinks_box, ret,
                   issued>>

\* a filter that looks for the tag in the name of the file
filter_by_tag_in_name(i) ==
    /\ i \in DOMAIN tag_list
    /\ LET tag == tag_list[i]
           filter_func == {fname \in Range(ListDir(zettel)) : Contains(fname, tag)}
           listing == refresh_list(zettel, filter_func)
       IN  /\ sidebar' = listing.sidebar
           /\ raised' = IF listing.ok THEN "" ELSE "ValueError"
    /\ messagebox' = NoBox
    /\ UNCHANGED <<zettel, current_file, current_id, backlinks_box, tag_list, ret,
                   issued>>

\* filter_by_tag, on entry i of the tag list
filter_by_tag(i) ==
    /\ i \in DOMAIN tag_list
    /\ LET tag == tag_list[i]
           filter_func ==
               {fname \in Range(ListDir(zettel)) :
                    CanRead(zettel, fname) /\ Contains(ReadFile(zettel, fname), tag)}
           listing == refresh_list(zettel, filter_func)
       IN  /\ sidebar' = listing.sidebar
           /\ raised' = IF listing.ok THEN "" ELSE "ValueError"
    /\ messagebox' = NoBox
    /\ UNCHANGED <<zettel, current_file, current_id, backlinks_box, tag_list, ret,
                   issued>>

(***************************************************************************)
(* The environment: the access mode of a file changes, which is what makes  *)
(* the open() calls of the handlers and of the scans fail.                  *)
(***************************************************************************)
chmod(i, mode) ==
    /\ i \in DOMAIN zettel
    /\ zettel[i].mode /= mode
    /\ zettel' = [zettel EXCEPT ![i].mode = mode]
    /\ Cardinality({j \in DOMAIN zettel : zettel'[j].mode /= "rw"}) <= MaxBad
    /\ UNCHANGED <<current_file, current_id, sidebar, backlinks_box, tag_list,
                   messagebox, raised, ret, issued>>

(***************************************************************************)
(* Direct calls of the note helpers.                                        *)
(***************************************************************************)
call_get_next_id ==
    /\ ret' = [fn |-> "get_next_id", arg |-> <<>>, val |-> <<get_next_id(zettel)>>]
    /\ UNCHANGED <<zettel, current_file, current_id, sidebar, backlinks_box, tag_list,
                   messagebox, raised, issued>>

call_find_backlinks(note_id) ==
    /\ ret' = [fn |-> "find_backlinks", arg |-> note_id,
               val |-> find_backlinks(zettel, note_id)]
    /\ UNCHANGED <<zettel, current_file, current_id, sidebar, backlinks_box, tag_list,
                   messagebox, raised, issued>>

call_extract_tags ==
    /\ ret' = [fn |-> "extract_tags", arg |-> <<>>, val |-> extract_tags(zettel)]
    /\ UNCHANGED <<zettel, current_file, current_id, sidebar, backlinks_box, tag_list,
                   messagebox, raised, issued>>

(***************************************************************************)
(* Spec: the life of the notes.  The app starts on an empty directory; the  *)
(* user creates, opens, saves and deletes notes while the access modes of   *)
(* the files change.                                                        *)
(***************************************************************************)
Next ==
    \/ \E title \in Titles, now \in Timestamps, at \in Places(zettel) :
           new_note(title, now, at)
    \/ \E typed \in Texts, at \in Places(zettel) : save_note(typed, at)
    \/ \E i \in DOMAIN sidebar : load_note(i)
    \/ \E i \in DOMAIN backlinks_box : open_backlink(i)
    \/ \E confirm \in BOOLEAN : delete_note(confirm)
    \/ \E i \in DOMAIN zettel, mode \in Modes : chmod(i, mode)

Spec == Init /\ [][Next]_vars

(***************************************************************************)
(* SpecQuery: the scans and the listings, on any directory.  The directory  *)
(* holds up to MaxFiles of the files of Shelf, in any order, of which up to *)
(* MaxBad cannot be opened; nothing writes to it.                           *)
(***************************************************************************)
Shelf ==
    {[name |-> <<"1", "_", "a", ".", "m", "d">>, body |-> <<"#", "B", " ", "[", "[", "2", "]", "]">>],
     [name |-> <<"2", "_", "b", ".", "m", "d">>, body |-> <<"x", "#", "b", " ", "#", "B", " ", "[", "[", "1", "]", "]", " ", "[", "[", "2", "]", "]">>],
     [name |-> <<"5", "_", "c", ".", "m", "d">>, body |-> <<"z", "e", "t", "t", "e", "l", " ", "#", "b">>],
     [name |-> <<"1", "0", "_", "d", ".", "m", "d">>, body |-> <<"[", "[", "1", "]", "]">>],
     [name |-> <<"x", "_", "e", ".", "m", "d">>, body |-> <<"[", "[", "1", "]", "]", " ", "#", "s">>],
     [name |-> <<".", "9", "_", "h", ".", "m", "d">>, body |-> <<"[", "[", "2", "]", "]", " ", "#", "h">>],
     [name |-> <<"7", "_", "g", ".", "t", "x", "t">>, body |-> <<"[", "[", "2", "]", "]", " ", "#", "g">>]}

\* the directories InitQuery draws from: the sequences of n distinct files
RECURSIVE Shelves(_)
Shelves(n) ==
    IF n = 0 THEN {<<>>}
    ELSE LET shorter == Shelves(n - 1)
         IN  shorter \cup
             {Append(dir, [name |-> f.name, body |-> f.body, mode |-> mode]) :
                  dir \in {d \in shorter : Len(d) = n - 1},
                  f \in Shelf, mode \in Modes}

InitQuery ==
    /\ zettel \in {dir \in Shelves(MaxFiles) :
                      /\ \A i, j \in DOMAIN dir : dir[i].name = dir[j].name => i = j
                      /\ Cardinality({i \in DOMAIN dir : dir[i].mode /= "rw"}) <= MaxBad}
    /\ current_file = None
    /\ current_id = None
    /\ sidebar = <<>>
    /\ backlinks_box = <<>>
    /\ tag_list = <<>>
    /\ messagebox = NoBox
    /\ raised = ""
    /\ ret = [fn |-> "none", arg |-> <<>>, val |-> <<>>]
    /\ issued = {}

NextQuery ==
    \/ refresh_list_command
    \/ \E entry \in Keywords : search_notes(entry)
    \/ refresh_tags
    \/ \E i \in DOMAIN tag_list : filter_by_tag(i)
    \/ call_get_next_id
    \/ \E note_id \in LinkIds : call_find_backlinks(note_id)
    \/ call_extract_tags

SpecQuery == InitQuery /\ [][NextQuery]_vars

(***************************************************************************)
(* The vocabulary of the properties.                                        *)
(***************************************************************************)
\* the names of the note files of dir
NoteNames(dir) == Range(list_note_files(dir))

\* fname carries an ID: int() accepts its prefix
HasId(fname) == PyInt(SplitPrefix(fname)).ok

\* the ID fname carries
IdOf(fname) == PyInt(SplitPrefix(fname)).val

\* the IDs of the note files of dir
NoteIds(dir) == {IdOf(f) : f \in {g \in NoteNames(dir) : HasId(g)}}

\* the body of the file fname of dir
BodyOf(dir, fname) == dir[IndexOf(dir, fname)].body

\* files lists, in the order of the directory and each once, the note files
\* of dir that can be opened and whose body holds [[note_id]]
Linking(dir, note_id, files) ==
    /\ Range(files) = {f \in NoteNames(dir) :
                           /\ dir[IndexOf(dir, f)].mode = "rw"
                           /\ Contains(BodyOf(dir, f), Link(note_id))}
    /\ \A a, b \in DOMAIN files :
           a < b => IndexOf(dir, files[a]) < IndexOf(dir, files[b])

\* a step of new_note that goes past the test of the title (it ends with the
\* dialog Note Created, or with the exception of refresh_list)
Creates ==
    /\ messagebox' \in {Box("showinfo", "Note Created"), NoBox}
    /\ zettel' /= zettel
    /\ \E title \in Titles \ {<<>>}, now \in Timestamps, at \in Places(zettel) :
           new_note(title, now, at)

\* a step of save_note
Saves == \E typed \in Texts, at \in Places(zettel) : save_note(typed, at)

\* a step of delete_note that removes the open note's file
Removes ==
    /\ current_file /= None
    /\ Exists(zettel, current_file)
    /\ delete_note(TRUE)

\* a step of delete_note that runs to its end
Deletes ==
    /\ current_file /= None
    /\ current_file' = None
    /\ Removes

(***************************************************************************)
(* The properties of the note store, under Spec.                            *)
(***************************************************************************)
\* C1, as amended: new_note gives the new note an ID greater than the ID of
\* every note file the store holds at that moment, and writes exactly one
\* new file; so an ID comes back only after every note with that ID or a
\* greater one has been deleted.
C1_NewIdAboveStore ==
    [][Creates =>
           /\ Cardinality(NoteNames(zettel') \ NoteNames(zettel)) = 1
           /\ \A f \in NoteNames(zettel') \ NoteNames(zettel) :
                  /\ HasId(f)
                  /\ IdOf(f) >= 1
                  /\ \A n \in NoteIds(zettel) : n < IdOf(f)]_vars

\* C1, as written: an ID new_note has once given to a note is never given to
\* a note created later, even after the first note has been deleted.
C1_NeverReused ==
    [][Creates =>
           \A f \in NoteNames(zettel') \ NoteNames(zettel) :
               SplitPrefix(f) \notin issued]_vars

\* a note was just created with ID 3 in a store that holds note 2 and no
\* longer holds note 1
C1_Witness ==
    /\ messagebox = Box("showinfo", "Note Created")
    /\ issued = {<<"1">>, <<"2">>, <<"3">>}
    /\ NoteIds(zettel) = {2, 3}

\* C2: in every state reached from the empty store no two note files carry
\* the same ID, and the ID get_next_id would return is the ID of no file
\* present.
C2_DistinctIds ==
    /\ \A f, g \in NoteNames(zettel) :
           (HasId(f) /\ HasId(g) /\ IdOf(f) = IdOf(g)) => f = g
    /\ PyInt(get_next_id(zettel)).val \notin NoteIds(zettel)

\* C3: when delete_note of the open note d runs to its end, the file of d is
\* gone from the store and from the listing, every other file is still there
\* under its name, none of them holds [[d]] any more, the ones that held it
\* hold (deleted note d), and the ones that did not hold it are unchanged.
C3_DeleteAndCleanup ==
    [][Deletes =>
           /\ ~Exists(zettel', current_file)
           /\ current_file \notin Range(sidebar')
           /\ ListDir(zettel') = ListDir(RemoveFile(zettel, current_file))
           /\ \A f \in Range(ListDir(zettel')) :
                  /\ ~Contains(BodyOf(zettel', f), Link(current_id))
                  /\ Contains(BodyOf(zettel, f), Link(current_id))
                         => Contains(BodyOf(zettel', f), Placeholder(current_id))
                  /\ ~Contains(BodyOf(zettel, f), Link(current_id))
                         => BodyOf(zettel', f) = BodyOf(zettel, f)]_vars

\* note 1 was just deleted and a note that linked to it twice, and to note
\* 12, now holds the placeholder and still links to note 12
C3_Witness ==
    /\ messagebox = Box("showinfo", "Deleted")
    /\ \E i \in DOMAIN zettel :
           /\ Contains(zettel[i].body, Placeholder(<<"1">>))
           /\ Contains(zettel[i].body, Link(<<"1", "2">>))
           /\ ~Contains(zettel[i].body, Link(<<"1">>))

\* C4: when the cleanup of delete_note fails on one file it goes on past that
\* file: after delete_note has removed the file of note d, no file that can
\* be opened holds [[d]] any more.
C4_CleanupContinues ==
    [][Removes =>
           \A i \in DOMAIN zettel' :
               zettel'[i].mode = "rw"
                   => ~Contains(zettel'[i].body, Link(current_id))]_vars

\* C5: new_note with a title that is empty or only whitespace writes no file
\* and uses up no ID.
C5_BlankTitleRejected ==
    [][\A title \in Titles, now \in Timestamps, at \in Places(zettel) :
           (Strip(title) = <<>> /\ new_note(title, now, at))
               => (zettel' = zettel /\ issued' = issued)]_vars

\* C8: find_backlinks(id) returns exactly the note files whose body holds
\* [[id]], the note's own file included.  After save_note or load_note the
\* backlinks box lists exactly the files linking to the open note; a file
\* just saved with [[b]] in it is among the backlinks of b; a file just
\* deleted is among the backlinks of no note.
C8_Backlinks ==
    [][/\ \A typed \in Texts, at \in Places(zettel) :
              (current_file /= None /\ messagebox' = Box("showinfo", "Saved")
               /\ save_note(typed, at))
                  => /\ Linking(zettel', current_id, backlinks_box')
                     /\ \A b \in LinkIds :
                            Contains(typed, Link(b))
                                => current_file \in Range(find_backlinks(zettel', b))
       /\ \A i \in DOMAIN sidebar :
              (current_file' = sidebar[i] /\ zettel' = zettel /\ messagebox' = NoBox
               /\ load_note(i))
                  => Linking(zettel, current_id', backlinks_box')
       /\ Deletes =>
              \A b \in LinkIds : current_file \notin Range(find_backlinks(zettel', b))]_vars

\* the open note links to itself and another note links to it: both are in
\* the backlinks box
C8_Witness ==
    /\ current_file /= None
    /\ current_file \in Range(backlinks_box)
    /\ Len(backlinks_box) >= 2

\* C10: save_note with a note open leaves the set of file names of the store
\* as it was and changes no other file; with no note open it leaves the store
\* as it was.
C10_SaveKeepsNames ==
    [][Saves =>
           /\ Range(ListDir(zettel')) = Range(ListDir(zettel))
           /\ \A f \in Range(ListDir(zettel)) \ {current_file} :
                  Exists(zettel', f) /\ BodyOf(zettel', f) = BodyOf(zettel, f)
           /\ current_file = None => zettel' = zettel]_vars

(***************************************************************************)
(* The properties of the scans and listings, under SpecQuery.               *)
(***************************************************************************)
\* C6: get_next_id returns the greatest ID of the note files plus one, and 1
\* when no note file carries an ID; a file whose prefix is no integer is
\* passed over, and a gap is not filled: IDs 1, 2, 5 give 6.
C6_NextId ==
    ret.fn = "get_next_id" =>
        /\ Len(ret.val) = 1
        /\ NoteIds(zettel) = {} => ret.val[1] = <<"1">>
        /\ NoteIds(zettel) /= {} =>
               \E m \in NoteIds(zettel) :
                   /\ \A n \in NoteIds(zettel) : n <= m
                   /\ PyInt(ret.val[1]) = [ok |-> TRUE, val |-> m + 1]
        /\ NoteIds(zettel) = {1, 2, 5} => ret.val[1] = <<"6">>
        /\ NoteIds(zettel) = {10} => ret.val[1] = <<"1", "1">>

\* get_next_id returned 6 on a store whose notes have the IDs 1, 2 and 5
C6_Witness ==
    /\ ret.fn = "get_next_id"
    /\ ret.val = <<<<"6">>>>
    /\ NoteIds(zettel) = {1, 2, 5}

\* C7: on a store each of whose note files carries an ID, refresh_list lists
\* every note file once, by ascending ID as an integer: IDs 2, 10, 1 are
\* listed 1, 2, 10.
C7_ListAll ==
    [][(refresh_list_command /\ \A f \in NoteNames(zettel) : HasId(f)) =>
           /\ raised' = ""
           /\ Range(sidebar') = NoteNames(zettel)
           /\ Len(sidebar') = Cardinality(NoteNames(zettel))
           /\ \A a, b \in DOMAIN sidebar' :
                  a < b => IdOf(sidebar'[a]) <= IdOf(sidebar'[b])
           /\ NoteIds(zettel) = {1, 2, 10} =>
                  [i \in DOMAIN sidebar' |-> IdOf(sidebar'[i])] = <<1, 2, 10>>]_vars

\* the directory lists the notes 2, 10, 1 in this order and the sidebar lists
\* them 1, 2, 10
C7_Witness ==
    /\ [i \in DOMAIN zettel |-> IdOf(zettel[i].name)] = <<2, 10, 1>>
    /\ [i \in DOMAIN sidebar |-> IdOf(sidebar[i])] = <<1, 2, 10>>

AllHaveIds(dir) == \A f \in NoteNames(dir) : HasId(f)

\* the file fname of dir can be opened
Readable(dir, fname) == dir[IndexOf(dir, fname)].mode = "rw"

\* c and d are the same character, or the same letter in different cases
SameLetter(c, d) ==
    \/ c = d
    \/ \E i \in DOMAIN UpperCase :
           {c, d} = {UpperCase[i], LowerCase[i]}

\* t occurs in s when the case of the letters is ignored
ContainsAnyCase(s, t) ==
    \E i \in 1..(Len(s) - Len(t) + 1) :
        \A j \in DOMAIN t : SameLetter(s[i + j - 1], t[j])

\* files lists exactly the note files in found, each once, by ascending ID
ListsAscending(files, found) ==
    /\ Range(files) = found
    /\ Len(files) = Cardinality(found)
    /\ \A a, b \in DOMAIN files : a < b => IdOf(files[a]) <= IdOf(files[b])

Unreadable(dir) == {f \in NoteNames(dir) : ~Readable(dir, f)}

\* dir without the files that cannot be opened
WithoutUnreadable(dir) ==
    LET Opens(file) == file.mode = "rw"
    IN  SelectSeq(dir, Opens)

\* found holds no file that cannot be opened, and every matching note file
\* that can be opened
SkipsUnreadable(dir, found, matching) ==
    /\ found \cap Unreadable(dir) = {}
    /\ (matching \cap NoteNames(dir)) \ Unreadable(dir) \subseteq found

\* C12: the scans are fail-open.  While some note file cannot be opened,
\* find_backlinks and extract_tags return what they return on the directory
\* without that file, and a search by a keyword and a filter by a tag (on
\* a directory whose note files all carry an ID) end without an exception and
\* list every matching note file that can be opened, and no file that cannot.
C12_FailOpen ==
    [][Unreadable(zettel) /= {} =>
           /\ (ret' /= ret /\ ret'.fn = "find_backlinks") =>
                  ret'.val = find_backlinks(WithoutUnreadable(zettel), ret'.arg)
           /\ (ret' /= ret /\ ret'.fn = "extract_tags") =>
                  ret'.val = extract_tags(WithoutUnreadable(zettel))
           /\ \A entry \in Keywords :
                  (/\ Strip(entry) /= <<>>
                   /\ ret' = ret
                   /\ tag_list' = tag_list
                   /\ AllHaveIds(zettel)
                   /\ search_notes(entry)) =>
                      LET matching ==
                              {f \in NoteNames(zettel) :
                                   \/ ContainsAnyCase(f, Strip(entry))
                                   \/ ContainsAnyCase(BodyOf(zettel, f), Strip(entry))}
                      IN  /\ raised' = ""
                          /\ SkipsUnreadable(zettel, Range(sidebar'), matching)
           /\ \A i \in DOMAIN tag_list :
                  (/\ ret' = ret
                   /\ tag_list' = tag_list
                   /\ AllHaveIds(zettel)
                   /\ filter_by_tag(i)) =>
                      LET matching ==
                              {f \in NoteNames(zettel) :
                                   Contains(BodyOf(zettel, f), tag_list[i])}
                      IN  /\ raised' = ""
                          /\ SkipsUnreadable(zettel, Range(sidebar'), matching)]_vars

\* extract_tags has skipped a note file that holds tags and cannot be opened,
\* and returned the tags of a file that comes after it
C12_Witness ==
    /\ ret.fn = "extract_tags"
    /\ ret.val /= <<>>
    /\ \E i, j \in DOMAIN zettel :
           /\ i < j
           /\ {zettel[i].name, zettel[j].name} \subseteq NoteNames(zettel)
           /\ zettel[i].mode = "none"
           /\ FindTags(zettel[i].body) /= {}
           /\ zettel[j].mode = "rw"
           /\ FindTags(zettel[j].body) \cap Range(ret.val) /= {}

\* the tokens of content: a "#", then one or more word characters, as many
\* as follow it
TagsIn(content) ==
    {SubSeq(content, p[1], p[2]) :
         p \in {q \in (DOMAIN content) \X (DOMAIN content) :
                    /\ q[1] < q[2]
                    /\ content[q[1]] = "#"
                    /\ \A k \in (q[1] + 1)..q[2] : IsWord(content[k])
                    /\ q[2] = Len(content) \/ ~IsWord(content[q[2] + 1])}}

\* C13: extract_tags returns the tokens "#" + word characters of the bodies
\* of the note files (those that can be opened), each token once, a token
\* that differs from another by case only as an entry of its own, in
\* ascending order of the strings; a token inside a larger word (x#b) is a
\* token (#b).
C13_ExtractTags ==
    ret.fn = "extract_tags" =>
        /\ Range(ret.val) =
               UNION {TagsIn(BodyOf(zettel, f)) :
                          f \in NoteNames(zettel) \ Unreadable(zettel)}
        /\ \A a, b \in DOMAIN ret.val : a < b => StrLess(ret.val[a], ret.val[b])
        /\ \A a, b \in DOMAIN ret.val :
               a /= b => ret.val[a] /= ret.val[b]

\* extract_tags has returned #B and #b, each once, from a directory where #B
\* stands in two files and #b stands only inside the word x#b
C13_Witness ==
    /\ ret.fn = "extract_tags"
    /\ ret.val = <<<<"#", "B">>, <<"#", "b">>>>
    /\ \A i \in DOMAIN zettel : zettel[i].mode = "rw"
    /\ {zettel[i].name : i \in DOMAIN zettel} =
           {<<"1", "_", "a", ".", "m", "d">>, <<"2", "_", "b", ".", "m", "d">>}

\* C14: filter_by_tag on a tag of the tag list lists, in ascending order of
\* their IDs and each once, exactly the note files (that can be opened) whose
\* body holds the tag, "#" included, as a substring; when the tag list is
\* what extract_tags returns, the listing is not empty.  (On a directory whose
\* note files all carry an ID.)
C14_FilterByTag ==
    [][\A i \in DOMAIN tag_list :
           (/\ ret' = ret
            /\ tag_list' = tag_list
            /\ AllHaveIds(zettel)
            /\ filter_by_tag(i)) =>
               /\ raised' = ""
               /\ ListsAscending(sidebar',
                      {f \in NoteNames(zettel) :
                           /\ Readable(zettel, f)
                           /\ Contains(BodyOf(zettel, f), tag_list[i])})
               /\ tag_list = extract_tags(zettel) => sidebar' /= <<>>]_vars

\* the filter by #b has listed notes 2 and 5 of a directory that holds note 5
\* before note 2, and note 1 with #B
C14_Witness ==
    /\ NoteIds(zettel) = {1, 2, 5}
    /\ Len(zettel) = 3
    /\ IdOf(zettel[1].name) = 5
    /\ <<"#", "b">> \in Range(tag_list)
    /\ [i \in DOMAIN sidebar |-> IdOf(sidebar[i])] = <<2, 5>>

(***************************************************************************)
(* The properties of the open note and of creation, under Spec.             *)
(***************************************************************************)
\* the names of the files of dir
FileNames(dir) == {dir[i].name : i \in DOMAIN dir}

\* C15: new_note never overwrites: a step of new_note that writes leaves the
\* directory with exactly one file more, under a name no file had before,
\* and every file that was there is still there with the same body.
C15_CreateNeverOverwrites ==
    [][Creates =>
           /\ Len(zettel') = Len(zettel) + 1
           /\ Cardinality(FileNames(zettel') \ FileNames(zettel)) = 1
           /\ \A i \in DOMAIN zettel :
                  /\ Exists(zettel', zettel[i].name)
                  /\ BodyOf(zettel', zettel[i].name) = zettel[i].body]_vars

\* new_note has just created a note in a directory that holds a note saved
\* with a text typed by the user
C15_Witness ==
    /\ messagebox = Box("showinfo", "Note Created")
    /\ Len(zettel) >= 2
    /\ \E i \in DOMAIN zettel, typed \in Texts : zettel[i].body = text_get(typed)

\* C16: after every operation, a delete whose cleanup fails partway included,
\* the open note is consistent with the directory: when current_file is set,
\* the file it names is in the directory (so that save_note, which writes to
\* current_file, makes no removed file appear again).
C16_OpenNoteExists ==
    current_file /= None => Exists(zettel, current_file)

(***************************************************************************)
(* The stray file, under SpecQuery.                                         *)
(***************************************************************************)
\* C17: a note file whose prefix before the first "_" is no integer is
\* tolerated by the listings as it is by get_next_id: on every directory
\* (get_next_id returns on all of them) refresh_list, search_notes and
\* filter_by_tag end without an exception.
C17_ListingsTolerateStray ==
    raised /= "ValueError"

====
